---- MODULE Spec2Model ----
(***************************************************************************)
(* Model of app.py: the Adafruit IO helpers (fetch_live_data,              *)
(* send_control_command), the Neon database helpers (connect_to_neon,      *)
(* fetch_historical_data, fetch_intrusion_logs) and the device control     *)
(* endpoint (control_device_api).                                          *)
(*                                                                         *)
(* Strings the code inspects character by character (the <value> path      *)
(* segment) are sequences of one-character strings.  Python None is the    *)
(* empty sequence <<>> and a present value x is <<x>>.  Messages are       *)
(* records whose field text is the literal part of the Python string.      *)
(***************************************************************************)
EXTENDS Integers, Sequences, FiniteSets, TLC

VARIABLES pc, call, ret, exc, sent, posts, gets, data, idx,
          sensor_data, tsType, connects, opened, closed, queries

vars == <<pc, call, ret, exc, sent, posts, gets, data, idx,
          sensor_data, tsType, connects, opened, closed, queries>>

feedVars == <<sent, posts, gets, data, idx>>
dbVars == <<connects, opened, closed, queries>>
storeVars == <<sensor_data, tsType>>

(***************************************************************************)
(* Bounds                                                                  *)
(***************************************************************************)
MaxStrLen == 2
MaxRows == 3

(***************************************************************************)
(* Python values                                                           *)
(***************************************************************************)
None == <<>>
Some(x) == <<x>>
NoFeed == "None"
NoExc == "none"

(***************************************************************************)
(* Configuration (app.py lines 23-38)                                      *)
(***************************************************************************)
FEEDS ==
  [k \in {"temperature", "humidity", "motion", "ctrl_light",
          "ctrl_lcd_text", "ctrl_mode", "last_image"} |->
     CASE k = "temperature" -> "home/temperature"
       [] k = "humidity" -> "home/humidity"
       [] k = "motion" -> "home/motion"
       [] k = "ctrl_light" -> "home/control/light"
       [] k = "ctrl_lcd_text" -> "home/control/lcd_message"
       [] k = "ctrl_mode" -> "home/control/mode"
       [] k = "last_image" -> "home/last_image_ts"]

FeedsGet(k) == IF k \in DOMAIN FEEDS THEN FEEDS[k] ELSE NoFeed

DB_SENSOR_MAP ==
  [k \in {"temperature", "humidity"} |->
     IF k = "temperature" THEN "temp_c" ELSE "humidity_pct"]

LiveKeys == <<"temperature", "humidity", "motion">>

(***************************************************************************)
(* Character strings: the alphabet, str.lower, str.upper                   *)
(***************************************************************************)
Chars == {"o", "n", "O", "N", "1"}

LowerChar(c) == CASE c = "O" -> "o" [] c = "N" -> "n" [] OTHER -> c
UpperChar(c) == CASE c = "o" -> "O" [] c = "n" -> "N" [] OTHER -> c

Lower(s) == [i \in DOMAIN s |-> LowerChar(s[i])]
Upper(s) == [i \in DOMAIN s |-> UpperChar(s[i])]

MAX_LENGTH == 32

ShortStrings == UNION {[1..n -> Chars] : n \in 0..MaxStrLen}
LongStrings == {[i \in 1..n |-> "1"] : n \in (MAX_LENGTH - 1)..(MAX_LENGTH + 1)}
Values == ShortStrings \cup LongStrings

Devices == {"light", "lcd_text", "mode", "fan"}
FeedKeys == DOMAIN FEEDS \cup {"ctrl_fan"}

(***************************************************************************)
(* The remote feed service: what one HTTP request can come back with       *)
(***************************************************************************)
Obj(v) == [json |-> "object", value |-> v]
Bodies == {Obj(Some("21.5")), Obj(Some("1")), Obj(None),
           [json |-> "array", value |-> None],
           [json |-> "invalid", value |-> None]}

Statuses == {200, 404}

GetOutcomes ==
  {[kind |-> "ConnectionError"], [kind |-> "Timeout"]}
    \cup [kind : {"response"}, status : Statuses, body : Bodies]

PostOutcomes ==
  {[kind |-> "ConnectionError"], [kind |-> "Timeout"]}
    \cup [kind : {"response"}, status : Statuses, body : {Obj(None)}]

\* The exception response.json() raises on a body that is not JSON: a
\* subclass of RequestException in requests >= 2.27, a plain ValueError before.
JsonErrors == {"requests.JSONDecodeError", "ValueError"}

IsRequestException(e) ==
  e \in {"ConnectionError", "Timeout", "HTTPError", "requests.JSONDecodeError"}

\* requests.get / requests.post followed by response.raise_for_status():
\* the exception raised, or NoExc.
RequestRaises(o) ==
  IF o.kind /= "response" THEN o.kind
  ELSE IF o.status >= 400 THEN "HTTPError"
  ELSE NoExc

\* response.json().get('value', 'N/A'): [exc, value]
JsonGetValue(body, jsonErr) ==
  CASE body.json = "invalid" -> [exc |-> jsonErr, value |-> "N/A"]
    [] body.json = "array" -> [exc |-> "AttributeError", value |-> "N/A"]
    [] OTHER -> [exc |-> NoExc,
                 value |-> IF body.value = None THEN "N/A" ELSE body.value[1]]

(***************************************************************************)
(* fetch_live_data (app.py lines 42-58)                                    *)
(***************************************************************************)
Idle == [op |-> "idle"]

CallFetchLive ==
  /\ pc = "idle"
  /\ call' = [op |-> "fetch_live_data"]
  /\ pc' = "fl_loop"
  /\ idx' = 1
  /\ data' = <<>>
  /\ gets' = <<>>
  /\ UNCHANGED <<ret, exc, sent, posts, dbVars, storeVars>>

\* One try/except of the loop body for feed_key with remote outcome o:
\* [exc, value] where exc is the exception that leaves the except clause.
FetchOne(o, jsonErr) ==
  LET raised == RequestRaises(o)
      got == JsonGetValue(o.body, jsonErr)
      e == IF raised /= NoExc THEN raised ELSE got.exc
  IN  IF e = NoExc THEN [exc |-> NoExc, value |-> got.value]
      ELSE IF IsRequestException(e) THEN [exc |-> NoExc, value |-> "Error"]
      ELSE [exc |-> e, value |-> "Error"]

Put(d, k, v) == [x \in DOMAIN d \cup {k} |-> IF x = k THEN v ELSE d[x]]

FetchLiveIter ==
  /\ pc = "fl_loop"
  /\ idx <= Len(LiveKeys)
  /\ LET feed_key == LiveKeys[idx]
         feed_name == FeedsGet(feed_key)
     IN  IF feed_name = NoFeed
         THEN /\ idx' = idx + 1
              /\ UNCHANGED <<pc, data, gets, exc>>
         ELSE \E o \in GetOutcomes, jsonErr \in JsonErrors :
                LET r == FetchOne(o, jsonErr)
                IN  /\ gets' = Append(gets, [key |-> feed_key,
                                             feed |-> feed_name,
                                             outcome |-> o])
                    /\ IF r.exc = NoExc
                       THEN /\ data' = Put(data, feed_key, r.value)
                            /\ idx' = idx + 1
                            /\ UNCHANGED <<pc, exc>>
                       ELSE /\ exc' = r.exc
                            /\ pc' = "raised"
                            /\ UNCHANGED <<data, idx>>
  /\ UNCHANGED <<call, ret, sent, posts, dbVars, storeVars>>

FetchLiveReturn ==
  /\ pc = "fl_loop"
  /\ idx > Len(LiveKeys)
  /\ ret' = data
  /\ pc' = "done"
  /\ UNCHANGED <<call, exc, feedVars, dbVars, storeVars>>

(***************************************************************************)
(* send_control_command (app.py lines 60-75)                               *)
(***************************************************************************)
PostsMadeRetry(feed_name, value, o) ==
  IF RequestRaises(o) = NoExc
  THEN <<[feed |-> feed_name, value |-> value, outcome |-> o]>>
  ELSE <<[feed |-> feed_name, value |-> value, outcome |-> o],
         [feed |-> feed_name, value |-> value, outcome |-> o]>>

\* The POSTs the call makes for remote outcome o.
PostsMade(feed_name, value, o) ==
  <<[feed |-> feed_name, value |-> value, outcome |-> o]>>

\* Whether the feed key fails to resolve (line 63).
FeedUnresolved(feed_name) == feed_name = NoFeed

SendControlCommand(feed_key, value, o) ==
  LET feed_name == FeedsGet(feed_key)
      e == RequestRaises(o)
  IN  IF FeedUnresolved(feed_name)
      THEN [ok |-> FALSE, msg |-> [text |-> "Invalid feed key"],
            posts |-> <<>>, exc |-> NoExc]
      ELSE IF e = NoExc
      THEN [ok |-> TRUE, msg |-> [text |-> "Success"],
            posts |-> PostsMade(feed_name, value, o), exc |-> NoExc]
      ELSE IF IsRequestException(e)
      THEN [ok |-> FALSE, msg |-> [text |-> "Error: ", e |-> e],
            posts |-> PostsMade(feed_name, value, o), exc |-> NoExc]
      ELSE [ok |-> FALSE, msg |-> [text |-> "Error: ", e |-> e],
            posts |-> PostsMade(feed_name, value, o), exc |-> e]

SendControl ==
  /\ pc = "idle"
  /\ \E feed_key \in FeedKeys, value \in Values, o \in PostOutcomes :
       LET r == SendControlCommand(feed_key, value, o)
       IN  /\ call' = [op |-> "send_control_command",
                       feed_key |-> feed_key, value |-> value]
           /\ sent' = <<[feed_key |-> feed_key, value |-> value,
                         ok |-> r.ok, msg |-> r.msg]>>
           /\ posts' = r.posts
           /\ ret' = [ok |-> r.ok, msg |-> r.msg]
           /\ exc' = r.exc
           /\ pc' = IF r.exc = NoExc THEN "done" ELSE "raised"
  /\ UNCHANGED <<gets, data, idx, dbVars, storeVars>>

(***************************************************************************)
(* control_device_api (app.py lines 254-288)                               *)
(***************************************************************************)
feed_key_map ==
  [d \in {"light", "lcd_text", "mode"} |->
     CASE d = "light" -> "ctrl_light"
       [] d = "lcd_text" -> "ctrl_lcd_text"
       [] d = "mode" -> "ctrl_mode"]

FeedKeyMapGet(d) == IF d \in DOMAIN feed_key_map THEN feed_key_map[d] ELSE NoFeed

TooLongOffByOne(value) == Len(value) >= MAX_LENGTH

\* line 272
TooLong(value) == Len(value) > MAX_LENGTH

ControlValueCaseSensitive(device, value) ==
  IF device = "lcd_text" THEN value
  ELSE IF device = "mode"
  THEN (IF value = <<"o", "n">> THEN <<"A", "R", "M", "E", "D">>
        ELSE <<"D", "I", "S", "A", "R", "M", "E", "D">>)
  ELSE Upper(value)

\* lines 270-281: the value handed to send_control_command
ControlValue(device, value) ==
  IF device = "lcd_text" THEN value
  ELSE IF device = "mode"
  THEN (IF Lower(value) = <<"o", "n">> THEN <<"A", "R", "M", "E", "D">>
        ELSE <<"D", "I", "S", "A", "R", "M", "E", "D">>)
  ELSE Upper(value)

DispatchResponseBadRequest(device, control_value, success, msg) ==
  IF success
  THEN [status |-> 200, success |-> TRUE,
        message |-> [text |-> " set to ", device |-> device,
                     value |-> control_value]]
  ELSE [status |-> 400, success |-> FALSE,
        message |-> [text |-> "Failed to control ", device |-> device,
                     detail |-> msg]]

\* lines 285-288: the response after the dispatch
DispatchResponse(device, control_value, success, msg) ==
  IF success
  THEN [status |-> 200, success |-> TRUE,
        message |-> [text |-> " set to ", device |-> device,
                     value |-> control_value]]
  ELSE [status |-> 500, success |-> FALSE,
        message |-> [text |-> "Failed to control ", device |-> device,
                     detail |-> msg]]

ControlDeviceApi ==
  /\ pc = "idle"
  /\ \E device \in Devices, value \in Values, o \in PostOutcomes :
       LET feed_key == FeedKeyMapGet(device)
           control_value == ControlValue(device, value)
           r == SendControlCommand(feed_key, control_value, o)
       IN  /\ call' = [op |-> "control_device_api",
                       device |-> device, value |-> value]
           /\ IF feed_key = NoFeed
              THEN /\ ret' = [status |-> 400, success |-> FALSE,
                              message |-> [text |-> "Invalid device"]]
                   /\ sent' = <<>>
                   /\ posts' = <<>>
                   /\ exc' = NoExc
                   /\ pc' = "done"
              ELSE IF device = "lcd_text" /\ TooLong(value)
              THEN /\ ret' = [status |-> 400, success |-> FALSE,
                              message |-> [text |-> "Text must be ",
                                           max |-> MAX_LENGTH]]
                   /\ sent' = <<>>
                   /\ posts' = <<>>
                   /\ exc' = NoExc
                   /\ pc' = "done"
              ELSE /\ sent' = <<[feed_key |-> feed_key,
                                 value |-> control_value,
                                 ok |-> r.ok, msg |-> r.msg]>>
                   /\ posts' = r.posts
                   /\ ret' = DispatchResponse(device, control_value, r.ok, r.msg)
                   /\ exc' = r.exc
                   /\ pc' = IF r.exc = NoExc THEN "done" ELSE "raised"
  /\ UNCHANGED <<gets, data, idx, dbVars, storeVars>>

(***************************************************************************)
(* The end of a request: the worker is free for the next one.              *)
(***************************************************************************)
Return ==
  /\ pc \in {"done", "raised"}
  /\ pc' = "idle"
  /\ call' = Idle
  /\ ret' = None
  /\ exc' = NoExc
  /\ sent' = <<>>
  /\ posts' = <<>>
  /\ gets' = <<>>
  /\ data' = <<>>
  /\ idx' = 0
  /\ connects' = 0
  /\ opened' = 0
  /\ closed' = 0
  /\ queries' = 0
  /\ UNCHANGED storeVars

InitRequest ==
  /\ pc = "idle"
  /\ call = Idle
  /\ ret = None
  /\ exc = NoExc
  /\ sent = <<>>
  /\ posts = <<>>
  /\ gets = <<>>
  /\ data = <<>>
  /\ idx = 0
  /\ connects = 0
  /\ opened = 0
  /\ closed = 0
  /\ queries = 0

Init ==
  /\ InitRequest
  /\ sensor_data = {}
  /\ tsType = "timestamp"

Next ==
  \/ CallFetchLive
  \/ FetchLiveIter
  \/ FetchLiveReturn
  \/ SendControl
  \/ ControlDeviceApi
  \/ Return

Spec == Init /\ [][Next]_vars

(***************************************************************************)
(* The Neon store: table sensor_data                                       *)
(*                                                                         *)
(* A row is [ts_iso, temp_c, humidity_pct, motion, image_path]; a NULL     *)
(* column is None.  ts_iso is [date, tod]: the calendar day and the second *)
(* of that day.  tsType is the declared type of column ts_iso: psycopg2    *)
(* hands a timestamp column to Python as a datetime and a text column as a *)
(* str.                                                                    *)
(***************************************************************************)
Dates == {1, 2}
Timestamps == [date : Dates, tod : {59, 60}]

ReadingRows ==
  [ts_iso : Timestamps, temp_c : {None, Some(21)},
   humidity_pct : {None, Some(40)}, motion : {"FALSE"}, image_path : {None}]

MotionRows ==
  [ts_iso : Timestamps, temp_c : {Some(21)}, humidity_pct : {Some(40)},
   motion : {"TRUE", "FALSE"}, image_path : {None, Some(""), Some("img.jpg")}]

Tables ==
  {t \in SUBSET ReadingRows : Cardinality(t) <= MaxRows}
    \cup {t \in SUBSET MotionRows : Cardinality(t) <= MaxRows}

Sensors == {"temperature", "humidity", "motion"}

TsLess(a, b) == a.date < b.date \/ (a.date = b.date /\ a.tod < b.tod)

\* datetime.strftime('%H:%M') and datetime.strftime('%Y-%m-%d %H:%M:%S')
StrfHM(ts) == <<ts.tod \div 3600, (ts.tod \div 60) % 60>>
StrfFull(ts) == <<ts.date, ts.tod \div 3600, (ts.tod \div 60) % 60, ts.tod % 60>>

\* All orders in which the store may return the rows of S under ORDER BY
\* ts_iso (descending = FALSE) or ORDER BY ts_iso DESC (descending = TRUE):
\* rows that tie come in any order.
Ordered(S, descending) ==
  {q \in [1..Cardinality(S) -> S] :
     /\ \A i, j \in 1..Cardinality(S) : i /= j => q[i] /= q[j]
     /\ \A i, j \in 1..Cardinality(S) :
          i < j => IF descending THEN ~TsLess(q[i].ts_iso, q[j].ts_iso)
                   ELSE ~TsLess(q[j].ts_iso, q[i].ts_iso)}

Column(row, c) == IF c = "temp_c" THEN row.temp_c ELSE row.humidity_pct

(***************************************************************************)
(* connect_to_neon (app.py lines 79-85), as called on lines 89 and 140     *)
(***************************************************************************)
DBOps == {"fetch_historical_data", "fetch_intrusion_logs"}

ConnectFailed == [text |-> "Failed to connect to the cloud database."]

ConnectToNeon ==
  /\ pc = "connect"
  /\ connects' = connects + 1
  /\ \E ok \in BOOLEAN :
       IF ok
       THEN /\ opened' = opened + 1
            /\ pc' = "try"
            /\ UNCHANGED ret
       ELSE /\ UNCHANGED opened
            /\ pc' = "done"
            /\ ret' = IF call.op = "fetch_historical_data"
                      THEN [data |-> None, error |-> Some(ConnectFailed)]
                      ELSE [logs |-> <<>>, error |-> Some(ConnectFailed)]
  /\ UNCHANGED <<call, exc, feedVars, closed, queries, storeVars>>

\* What the store does with the cursor and the statement.
DbOutcomes == {"ok", "cursor_error", "execute_error"}

QueryError(e) == [text |-> "Database Query Error: ", e |-> e]

(***************************************************************************)
(* fetch_historical_data (app.py lines 87-136)                             *)
(***************************************************************************)
CallHistory ==
  /\ pc = "idle"
  /\ \E date \in Dates, sensor \in Sensors :
       call' = [op |-> "fetch_historical_data", date |-> date, sensor |-> sensor]
  /\ pc' = "connect"
  /\ UNCHANGED <<ret, exc, feedVars, dbVars, storeVars>>

\* lines 106-111: WHERE DATE(ts_iso) = %s ORDER BY ts_iso
HistoryResults(date) ==
  Ordered({row \in sensor_data : row.ts_iso.date = date}, FALSE)

Capitalize(sensor) ==
  CASE sensor = "temperature" -> "Temperature"
    [] sensor = "humidity" -> "Humidity"
    [] OTHER -> sensor

\* lines 117-128: the exception the two list comprehensions raise, or NoExc
HistoryMapRaises(results, db_column) ==
  IF results /= <<>> /\ tsType = "text" THEN "AttributeError"
  ELSE IF \E i \in 1..Len(results) : Column(results[i], db_column) = None
  THEN "TypeError"
  ELSE NoExc

HistoryLabel(row) == StrfHM(row.ts_iso)

ChartData(results, sensor, db_column) ==
  [labels |-> [i \in 1..Len(results) |-> HistoryLabel(results[i])],
   label |-> Capitalize(sensor),
   data |-> [i \in 1..Len(results) |-> Column(results[i], db_column)[1]]]

\* lines 96-132: the try block with its except clause
HistoryTry ==
  /\ pc = "try"
  /\ call.op = "fetch_historical_data"
  /\ \E dbo \in DbOutcomes :
       IF dbo = "cursor_error"
       THEN /\ ret' = [data |-> None, error |-> Some(QueryError(dbo))]
            /\ UNCHANGED <<queries, exc>>
       ELSE IF call.sensor \notin DOMAIN DB_SENSOR_MAP
       THEN /\ ret' = [data |-> None,
                       error |-> Some([text |-> "Invalid sensor requested."])]
            /\ UNCHANGED <<queries, exc>>
       ELSE IF dbo = "execute_error"
       THEN /\ queries' = queries + 1
            /\ ret' = [data |-> None, error |-> Some(QueryError(dbo))]
            /\ UNCHANGED exc
       ELSE \E results \in HistoryResults(call.date) :
              LET db_column == DB_SENSOR_MAP[call.sensor]
                  e == HistoryMapRaises(results, db_column)
              IN  /\ queries' = queries + 1
                  /\ IF e = NoExc
                     THEN /\ ret' = [data |-> Some(ChartData(results, call.sensor,
                                                             db_column)),
                                     error |-> None]
                          /\ UNCHANGED exc
                     ELSE /\ exc' = e
                          /\ UNCHANGED ret
  /\ pc' = "finally"
  /\ UNCHANGED <<call, feedVars, connects, opened, closed, storeVars>>

(***************************************************************************)
(* fetch_intrusion_logs (app.py lines 138-172)                             *)
(***************************************************************************)
CallIntrusions ==
  /\ pc = "idle"
  /\ \E date \in Dates : call' = [op |-> "fetch_intrusion_logs", date |-> date]
  /\ pc' = "connect"
  /\ UNCHANGED <<ret, exc, feedVars, dbVars, storeVars>>

IntrusionWhereNoPathFilter(row, date) ==
  /\ row.ts_iso.date = date
  /\ (row.motion = "TRUE" \/ row.motion = "1")

\* line 153: WHERE DATE(ts_iso) = %s AND (motion = TRUE OR motion = 1)
\*           AND image_path IS NOT NULL
IntrusionWhere(row, date) ==
  /\ row.ts_iso.date = date
  /\ (row.motion = "TRUE" \/ row.motion = "1")
  /\ row.image_path /= None

\* lines 150-155: ... ORDER BY ts_iso DESC
IntrusionResults(date) ==
  Ordered({row \in sensor_data : IntrusionWhere(row, date)}, TRUE)

\* line 163: path or "No image recorded"
PathOr(path) ==
  IF path = None \/ path[1] = "" THEN "No image recorded" ELSE path[1]

\* lines 161-164
LogEntry(row) ==
  [timestamp |-> StrfFull(row.ts_iso), image_path |-> PathOr(row.image_path)]

\* lines 147-168: the try block with its except clause
IntrusionTry ==
  /\ pc = "try"
  /\ call.op = "fetch_intrusion_logs"
  /\ \E dbo \in DbOutcomes :
       IF dbo = "cursor_error"
       THEN /\ ret' = [logs |-> <<>>, error |-> Some(QueryError(dbo))]
            /\ UNCHANGED <<queries, exc>>
       ELSE IF dbo = "execute_error"
       THEN /\ queries' = queries + 1
            /\ ret' = [logs |-> <<>>, error |-> Some(QueryError(dbo))]
            /\ UNCHANGED exc
       ELSE \E results \in IntrusionResults(call.date) :
              /\ queries' = queries + 1
              /\ IF results /= <<>> /\ tsType = "text"
                 THEN /\ exc' = "AttributeError"
                      /\ UNCHANGED ret
                 ELSE /\ ret' = [logs |-> [i \in 1..Len(results) |-> LogEntry(results[i])],
                                 error |-> None]
                      /\ UNCHANGED exc
  /\ pc' = "finally"
  /\ UNCHANGED <<call, feedVars, connects, opened, closed, storeVars>>

(***************************************************************************)
(* finally: conn.close() (lines 133-134 and 169-170), then the return on   *)
(* lines 101, 136, 172 or the propagation of the exception                 *)
(***************************************************************************)
FinallyCloseUnlessRaised ==
  /\ pc = "finally"
  /\ closed' = IF exc = NoExc THEN closed + 1 ELSE closed
  /\ pc' = IF exc = NoExc THEN "done" ELSE "raised"
  /\ UNCHANGED <<call, ret, exc, feedVars, connects, opened, queries, storeVars>>

FinallyClose ==
  /\ pc = "finally"
  /\ closed' = closed + 1
  /\ pc' = IF exc = NoExc THEN "done" ELSE "raised"
  /\ UNCHANGED <<call, ret, exc, feedVars, connects, opened, queries, storeVars>>

InitNeon ==
  /\ InitRequest
  /\ sensor_data \in Tables
  /\ tsType \in {"timestamp", "text"}

NextNeon ==
  \/ CallHistory
  \/ CallIntrusions
  \/ ConnectToNeon
  \/ HistoryTry
  \/ IntrusionTry
  \/ FinallyClose
  \/ Return

SpecNeon == InitNeon /\ [][NextNeon]_vars

(***************************************************************************)
(* Properties of the Adafruit IO helpers and the control endpoint          *)
(***************************************************************************)
Finished == pc \in {"done", "raised"}

LiveKeySet == {"temperature", "humidity", "motion"}

\* C1: fetch_live_data never fails and returns exactly one entry for each of
\* temperature, humidity and motion, whatever each feed's remote outcome is
\* (success, network failure, timeout, non-success status, malformed body).
C1_FetchLiveNeverFails ==
  (call.op = "fetch_live_data" /\ Finished) =>
     /\ pc = "done"
     /\ DOMAIN ret = LiveKeySet

PostSucceeded(o) == o.kind = "response" /\ o.status \in 200..299

\* C5: send_control_command makes no POST and returns (False, "Invalid feed
\* key") when the feed key is not in the registry; otherwise it makes exactly
\* one POST and returns (True, "Success") if that attempt succeeded and
\* (False, detail) if it failed.
C5_SendControlSingleAttempt ==
  (call.op = "send_control_command" /\ Finished) =>
     /\ pc = "done"
     /\ IF call.feed_key \notin DOMAIN FEEDS
        THEN /\ posts = <<>>
             /\ ret.ok = FALSE
             /\ ret.msg.text = "Invalid feed key"
        ELSE /\ Len(posts) = 1
             /\ posts[1].value = call.value
             /\ IF PostSucceeded(posts[1].outcome)
                THEN ret.ok = TRUE /\ ret.msg.text = "Success"
                ELSE ret.ok = FALSE /\ ret.msg.text = "Error: "

C5_Witness ==
  /\ call.op = "send_control_command"
  /\ pc = "done"
  /\ call.feed_key = "ctrl_light"
  /\ Len(posts) = 1
  /\ posts[1].outcome.kind = "Timeout"
  /\ ret.ok = FALSE

MappedDevices == {"light", "lcd_text", "mode"}

\* C6: control_device_api answers 400 without calling the dispatcher or the
\* network when the device is unmapped ("Invalid device") or when the device
\* is lcd_text and the value is longer than 32 characters; an lcd_text value
\* of 32 characters or fewer is dispatched.
C6_RejectBeforeDispatch ==
  (call.op = "control_device_api" /\ Finished) =>
     /\ call.device \notin MappedDevices =>
          /\ pc = "done"
          /\ ret.status = 400
          /\ ret.message.text = "Invalid device"
          /\ sent = <<>>
          /\ posts = <<>>
     /\ (call.device = "lcd_text" /\ Len(call.value) > 32) =>
          /\ pc = "done"
          /\ ret.status = 400
          /\ sent = <<>>
          /\ posts = <<>>
     /\ (call.device = "lcd_text" /\ Len(call.value) <= 32) =>
          /\ ret.status /= 400
          /\ Len(sent) = 1
          /\ Len(posts) = 1

C6_Witness ==
  /\ call.op = "control_device_api"
  /\ pc = "done"
  /\ call.device = "lcd_text"
  /\ Len(call.value) = 32
  /\ Len(sent) = 1
  /\ sent[1].value = call.value

OnIgnoringCase ==
  {<<"o", "n">>, <<"O", "n">>, <<"o", "N">>, <<"O", "N">>}

IsUpperCased(raw, out) ==
  /\ Len(out) = Len(raw)
  /\ \A i \in 1..Len(raw) :
       /\ out[i] \notin {"o", "n"}
       /\ \/ out[i] = raw[i]
          \/ <<raw[i], out[i]>> \in {<<"o", "O">>, <<"n", "N">>}

\* C7: the value control_device_api passes to the dispatcher depends on
\* (device, value) only: for mode it is "ARMED" exactly when the value is
\* "on" ignoring case and "DISARMED" otherwise; for lcd_text it is the value
\* unmodified; for light it is the value upper-cased.
C7_DispatchedValue ==
  (call.op = "control_device_api" /\ Len(sent) = 1) =>
     /\ call.device = "mode" =>
          sent[1].value = IF call.value \in OnIgnoringCase
                          THEN <<"A", "R", "M", "E", "D">>
                          ELSE <<"D", "I", "S", "A", "R", "M", "E", "D">>
     /\ call.device = "lcd_text" => sent[1].value = call.value
     /\ call.device = "light" => IsUpperCased(call.value, sent[1].value)
     /\ \A i \in 1..Len(posts) : posts[i].value = sent[1].value

C7_Witness ==
  /\ call.op = "control_device_api"
  /\ call.device = "mode"
  /\ call.value = <<"O", "N">>
  /\ Len(sent) = 1
  /\ sent[1].value = <<"A", "R", "M", "E", "D">>

\* C8: when control_device_api reached the dispatcher, the status is 200 with
\* success true exactly when the dispatch returned ok, and 500 with success
\* false and the dispatcher's detail in the message exactly when it did not;
\* 400 is never returned after a dispatch.
C8_StatusFollowsDispatch ==
  (call.op = "control_device_api" /\ pc = "done" /\ Len(sent) = 1) =>
     /\ sent[1].ok => (ret.status = 200 /\ ret.success = TRUE)
     /\ ~sent[1].ok => /\ ret.status = 500
                       /\ ret.success = FALSE
                       /\ ret.message.detail = sent[1].msg
     /\ ret.status /= 400

C8_Witness ==
  /\ call.op = "control_device_api"
  /\ pc = "done"
  /\ Len(sent) = 1
  /\ ~sent[1].ok
  /\ ret.status = 500
  /\ ret.message.detail.text = "Error: "

\* What C9 expects for one key from that key's own remote outcome.  A
\* successful response whose body is no JSON object has no value field; both
\* sentinels are accepted for it.
ExpectedLive(o) ==
  IF ~PostSucceeded(o) THEN {"Error"}
  ELSE IF o.body.json /= "object" THEN {"Error", "N/A"}
  ELSE IF o.body.value = None THEN {"N/A"}
  ELSE {o.body.value[1]}

\* C9: in fetch_live_data each key's value depends only on that key's own
\* remote outcome ("Error" on a failed GET, "N/A" on a response without a
\* value field, the value field otherwise), and a failure for one key never
\* prevents the GETs for the remaining keys.
C9_PerKeyIsolation ==
  (call.op = "fetch_live_data" /\ Finished) =>
     /\ Len(gets) = Len(LiveKeys)
     /\ \A i \in 1..Len(gets) :
          /\ gets[i].key = LiveKeys[i]
          /\ gets[i].key \in DOMAIN ret
          /\ ret[gets[i].key] \in ExpectedLive(gets[i].outcome)

(***************************************************************************)
(* Properties of the Neon helpers                                          *)
(***************************************************************************)
\* C2: for a sensor key without a database column, fetch_historical_data
\* returns "Invalid sensor requested." and opens no database connection and
\* executes no query, whether or not the database is reachable.
C2_InvalidSensorBeforeConnect ==
  (call.op = "fetch_historical_data" /\ Finished
     /\ call.sensor \notin {"temperature", "humidity"}) =>
     /\ pc = "done"
     /\ ret.error = Some([text |-> "Invalid sensor requested."])
     /\ connects = 0
     /\ opened = 0
     /\ queries = 0

\* C3: when fetch_historical_data or fetch_intrusion_logs returns or raises,
\* on every exit path, as many database connections have been closed as were
\* opened.
C3_ConnectionsReleased ==
  (call.op \in DBOps /\ Finished) => opened = closed

C3_Witness ==
  /\ call.op = "fetch_historical_data"
  /\ pc = "raised"
  /\ exc = "TypeError"
  /\ opened = 1
  /\ closed = 1

\* C4: every error inside fetch_historical_data or fetch_intrusion_logs,
\* a data-shape mismatch while mapping rows included, is returned as a
\* (value, error) pair with a non-null error; no exception reaches the caller.
C4_ErrorsReturnedNotRaised ==
  (call.op \in DBOps /\ Finished) =>
     /\ pc = "done"
     /\ exc = NoExc
     /\ (opened = 0 \/ queries = 0) => ret.error /= None

\* Lexicographic order of two formatted 'YYYY-MM-DD HH:MM:SS' timestamps.
RECURSIVE LexLess(_, _)
LexLess(a, b) ==
  IF a = <<>> \/ b = <<>> THEN FALSE
  ELSE Head(a) < Head(b) \/ (Head(a) = Head(b) /\ LexLess(Tail(a), Tail(b)))

MotionRowsOn(date) ==
  {row \in sensor_data : row.ts_iso.date = date /\ row.motion \in {"TRUE", "1"}}

HasEntry(logs, row, path) ==
  \E i \in 1..Len(logs) :
     logs[i].timestamp = <<row.ts_iso.date, 0, row.ts_iso.tod \div 60,
                           row.ts_iso.tod % 60>>
       /\ logs[i].image_path = path

\* C10 as stated: fetch_intrusion_logs returns entries in strictly descending
\* timestamp order, and a stored motion row of the requested date with a null
\* image path yields an entry whose image path is "No image recorded".
C10_StrictOrderAndNullPlaceholder ==
  (call.op = "fetch_intrusion_logs" /\ pc = "done" /\ ret.error = None) =>
     /\ \A i \in 1..(Len(ret.logs) - 1) :
          LexLess(ret.logs[i + 1].timestamp, ret.logs[i].timestamp)
     /\ \A row \in MotionRowsOn(call.date) :
          row.image_path = None => HasEntry(ret.logs, row, "No image recorded")

\* C10 amended: fetch_intrusion_logs returns entries in descending timestamp
\* order in which equal timestamps may follow each other; a stored motion row
\* of the requested date with a null image path yields no entry, one with an
\* empty image path yields an entry whose image path is "No image recorded",
\* and one with any other image path yields an entry with that path.
C10_DescendingAndNullSkipped ==
  (call.op = "fetch_intrusion_logs" /\ pc = "done" /\ ret.error = None) =>
     /\ \A i \in 1..(Len(ret.logs) - 1) :
          ~LexLess(ret.logs[i].timestamp, ret.logs[i + 1].timestamp)
     /\ Len(ret.logs) =
          Cardinality({row \in MotionRowsOn(call.date) : row.image_path /= None})
     /\ \A row \in MotionRowsOn(call.date) :
          /\ row.image_path = Some("") =>
               HasEntry(ret.logs, row, "No image recorded")
          /\ row.image_path \notin {None, Some("")} =>
               HasEntry(ret.logs, row, row.image_path[1])

C10_Witness ==
  /\ call.op = "fetch_intrusion_logs"
  /\ pc = "done"
  /\ ret.error = None
  /\ Len(ret.logs) = 2
  /\ ret.logs[1].timestamp = ret.logs[2].timestamp
  /\ ret.logs[1].image_path = "No image recorded"
  /\ \E row \in MotionRowsOn(call.date) : row.image_path = None

====
